---- MODULE Spec2Model ----
(***************************************************************************)
(* SQL Lab REST API (superset/sqllab/api.py): the submit-execution         *)
(* endpoint execute_sql_query, the factories _create_sql_json_command and  *)
(* _create_sql_json_executor, and the results endpoint get_results.        *)
(* The collaborators the endpoint constructs and runs (ExecuteSqlCommand,  *)
(* the two executors, the convertor, SqlExecutionResultsCommand) are not   *)
(* part of api.py; they are modelled from their documented contracts.      *)
(***************************************************************************)
EXTENDS Integers, Sequences, FiniteSets, TLC

\* ---------------------------------------------------------------- bounds
MaxRows     == 2       \* most rows a query produces
MaxDuration == 2       \* longest time the database needs for one query
MaxConfig   == 1       \* largest configured SQLLAB_TIMEOUT / DISPLAY_MAX_ROW

\* Two requests, so that dispatches interleave; named in their order of arrival.
Reqs      == {1, 2}
\* 0 encodes the empty key; the largest key is never issued, as each request creates
\* at most one Query record.
Keys      == 0..(Cardinality(Reqs) + 1)
Terminal  == {"success", "failed", "timed_out", "stopped"}

Min(a, b) == IF a < b THEN a ELSE b

VARIABLES
    config,       \* app.config: SQLLAB_TIMEOUT, DISPLAY_MAX_ROW, SQLLAB_BACKEND_PERSISTENCE
    pc,           \* per request: position in execute_sql_query / the command
    body,         \* per request: request.json as the schema sees it
    ctx,          \* per request: SqlJsonExecutionContext
    executor,     \* per request: the SqlJsonExecutor built for the command
    convertor,    \* per request: ExecutionContextConvertor's max_row_in_display
    execResult,   \* per request: what the executor returned to the command
    outcome,      \* per request: CommandResult, or the exception command.run() raised
    response,     \* per request: the HTTP response
    renders,      \* per request: calls of the query renderer
    invocations,  \* per request: calls of executor.execute
    queries,      \* Query records, in creation order
    taskQueue,    \* ids of Query records handed to the worker pool
    store,        \* results backend: key -> stored row count, -1 when absent
    fetch         \* the last get_results call and its response

vars == <<config, pc, body, ctx, executor, convertor, execResult, outcome,
          response, renders, invocations, queries, taskQueue, store, fetch>>

\* ------------------------------------------------------------ data shapes
NoBody     == [valid |-> FALSE, runAsync |-> FALSE]
NoCtx      == [built |-> FALSE, runAsynchronous |-> FALSE, queryId |-> 0]
NoExecutor == [kind |-> "none", timeout |-> 0, persist |-> FALSE]
NoPayload  == [kind |-> "none", resultsKey |-> 0, queryId |-> 0, rowCountTotal |-> 0,
               rowCountDisplayed |-> 0, isLimited |-> FALSE, errorKind |-> "none"]
NoExecResult == [status |-> "none", queryId |-> 0, resultsKey |-> 0, total |-> 0,
                 errorKind |-> "none"]
NoOutcome  == [raised |-> FALSE, status |-> "none", exKind |-> "none", exStatus |-> 0,
               payload |-> NoPayload]
NoResponse == [status |-> 0, kind |-> "none", payload |-> NoPayload, errorKind |-> "none"]
NoFetch    == [called |-> FALSE, key |-> 0, health |-> "ok", raised |-> FALSE,
               status |-> 0, errorKind |-> "none", resultStatus |-> "none", rowCount |-> 0]

\* A raised SqlLabException: its class and the status the class declares.
Raise(kind, status) ==
    [raised |-> TRUE, status |-> "none", exKind |-> kind, exStatus |-> status,
     payload |-> NoPayload]

\* The Query records a request created, and the keys issued so far.
QueriesOf(r) == {q \in DOMAIN queries : queries[q].owner = r}
IssuedKeys   == {queries[q].resultsKey : q \in DOMAIN queries}

\* --------------------------------------------- api.py: pure pieces
\* _create_sql_json_executor: the variant is chosen from the context's flag alone.
CreateSqlJsonExecutorInverted(c) ==
    IF c.runAsynchronous
    THEN [kind |-> "sync", timeout |-> config.timeout, persist |-> config.persist]
    ELSE [kind |-> "async", timeout |-> 0, persist |-> FALSE]

\* The synchronous executor built with a time budget other than SQLLAB_TIMEOUT.
CreateSqlJsonExecutorWrongTimeout(c) ==
    IF c.runAsynchronous
    THEN [kind |-> "async", timeout |-> 0, persist |-> FALSE]
    ELSE [kind |-> "sync", timeout |-> config.timeout + 1, persist |-> config.persist]

CreateSqlJsonExecutor(c) ==
    IF c.runAsynchronous
    THEN [kind |-> "async", timeout |-> 0, persist |-> FALSE]
    ELSE [kind |-> "sync", timeout |-> config.timeout, persist |-> config.persist]

\* set_max_row_in_display left at a value larger than DISPLAY_MAX_ROW.
MaxRowInDisplayUnset == MaxRows + 1

\* execution_context_convertor.set_max_row_in_display(int(config.get("DISPLAY_MAX_ROW")))
MaxRowInDisplay == config.displayMaxRow

\* The status of the response to a returned CommandResult, every result answered 200.
ResultStatusAlways200(o) == 200

\* response_status = 202 if command_result["status"] == QUERY_IS_RUNNING else 200
ResultStatus(o) == IF o.status = "queryIsRunning" THEN 202 ELSE 200

\* Every SqlLabException answered with a generic 500.
ExceptionStatusGeneric(o) == 500

\* response_status = 403 if isinstance(ex, QueryIsForbiddenToAccessException) else ex.status
ExceptionStatus(o) ==
    IF o.exKind = "QueryIsForbiddenToAccessException" THEN 403 ELSE o.exStatus

\* The response execute_sql_query builds from what command.run() returned or raised.
ResponseOf(o) ==
    IF o.raised
    THEN [status |-> ExceptionStatus(o), kind |-> "errors", payload |-> NoPayload,
          errorKind |-> o.exKind]
    ELSE [status |-> ResultStatus(o), kind |-> "payload", payload |-> o.payload,
          errorKind |-> "none"]

\* --------------------------------------------- api.py: execute_sql_query
\* A POST /execute/ arrives; b is request.json as ExecutePayloadSchema judges it.
\* Requests are numbered in their order of arrival.
Submit(r, b) ==
    /\ pc[r] = "idle"
    /\ \A r2 \in Reqs : r2 < r => pc[r2] # "idle"
    /\ pc' = [pc EXCEPT ![r] = "received"]
    /\ body' = [body EXCEPT ![r] = b]
    /\ UNCHANGED <<config, ctx, executor, convertor, execResult, outcome, response,
                   renders, invocations, queries, taskQueue, store, fetch>>

\* A body failing the schema is passed on to the dispatch all the same.
LoadSchemaIgnoringErrors(r) ==
    /\ pc[r] = "received"
    /\ pc' = [pc EXCEPT ![r] = "loaded"]
    /\ UNCHANGED <<config, body, ctx, executor, convertor, execResult, outcome, response,
                   renders, invocations, queries, taskQueue, store, fetch>>

\* self.execute_model_schema.load(request.json); ValidationError -> response_400
LoadSchema(r) ==
    /\ pc[r] = "received"
    /\ IF body[r].valid
       THEN /\ pc' = [pc EXCEPT ![r] = "loaded"]
            /\ UNCHANGED response
       ELSE /\ pc' = [pc EXCEPT ![r] = "responded"]
            /\ response' = [response EXCEPT ![r] =
                   [status |-> 400, kind |-> "message", payload |-> NoPayload,
                    errorKind |-> "ValidationError"]]
    /\ UNCHANGED <<config, body, ctx, executor, convertor, execResult, outcome,
                   renders, invocations, queries, taskQueue, store, fetch>>

\* execution_context = SqlJsonExecutionContext(request.json)
CreateContext(r) ==
    /\ pc[r] = "loaded"
    /\ ctx' = [ctx EXCEPT ![r] = [built |-> TRUE, runAsynchronous |-> body[r].runAsync,
                                   queryId |-> 0]]
    /\ pc' = [pc EXCEPT ![r] = "context"]
    /\ UNCHANGED <<config, body, executor, convertor, execResult, outcome, response,
                   renders, invocations, queries, taskQueue, store, fetch>>

\* The factory saves a Query record while it builds the command.
CreateSqlJsonCommandEager(r) ==
    /\ pc[r] = "context"
    /\ executor' = [executor EXCEPT ![r] = CreateSqlJsonExecutor(ctx[r])]
    /\ convertor' = [convertor EXCEPT ![r] = MaxRowInDisplay]
    /\ queries' = Append(queries,
           [id |-> Len(queries) + 1, owner |-> r, status |-> "pending",
            resultsKey |-> Len(queries) + 1, duration |-> 0, rowCount |-> 0, execs |-> 0])
    /\ pc' = [pc EXCEPT ![r] = "Validating"]
    /\ UNCHANGED <<config, body, ctx, execResult, outcome, response,
                   renders, invocations, taskQueue, store, fetch>>

\* command = self._create_sql_json_command(execution_context, log_params); command.run()
\* is entered: the command starts in its Validating state.
CreateSqlJsonCommand(r) ==
    /\ pc[r] = "context"
    /\ executor' = [executor EXCEPT ![r] = CreateSqlJsonExecutor(ctx[r])]
    /\ convertor' = [convertor EXCEPT ![r] = MaxRowInDisplay]
    /\ pc' = [pc EXCEPT ![r] = "Validating"]
    /\ UNCHANGED <<config, body, ctx, execResult, outcome, response,
                   renders, invocations, queries, taskQueue, store, fetch>>

\* The handler runs the command again when it failed.
RespondWithRetry(r) ==
    /\ pc[r] \in {"Done", "Aborted"}
    /\ IF outcome[r].raised \/ outcome[r].status = "failed"
       THEN /\ pc' = [pc EXCEPT ![r] = "Validating"]
            /\ UNCHANGED response
       ELSE /\ pc' = [pc EXCEPT ![r] = "responded"]
            /\ response' = [response EXCEPT ![r] = ResponseOf(outcome[r])]
    /\ UNCHANGED <<config, body, ctx, executor, convertor, execResult, outcome,
                   renders, invocations, queries, taskQueue, store, fetch>>

\* json_success(command_result["payload"], response_status), or, on a SqlLabException,
\* self.response(response_status, errors=[ex.to_dict()])
Respond(r) ==
    /\ pc[r] \in {"Done", "Aborted"}
    /\ response' = [response EXCEPT ![r] = ResponseOf(outcome[r])]
    /\ pc' = [pc EXCEPT ![r] = "responded"]
    /\ UNCHANGED <<config, body, ctx, executor, convertor, execResult, outcome,
                   renders, invocations, queries, taskQueue, store, fetch>>

\* --------------------------------------------- ExecuteSqlCommand.run (contract)
\* Validating: the Access Validator runs first; a refusal aborts the command.
ValidateAccess(r) ==
    /\ pc[r] = "Validating"
    /\ \E allowed \in BOOLEAN :
         IF allowed
         THEN /\ pc' = [pc EXCEPT ![r] = "Rendering"]
              /\ UNCHANGED outcome
         ELSE /\ pc' = [pc EXCEPT ![r] = "Aborted"]
              /\ outcome' = [outcome EXCEPT ![r] =
                     Raise("QueryIsForbiddenToAccessException", 403)]
    /\ UNCHANGED <<config, body, ctx, executor, convertor, execResult, response,
                   renders, invocations, queries, taskQueue, store, fetch>>

\* Rendering: a complete rendered string, or TemplateRenderError.
Render(r) ==
    /\ pc[r] = "Rendering"
    /\ renders' = [renders EXCEPT ![r] = @ + 1]
    /\ \E ok \in BOOLEAN :
         IF ok
         THEN /\ pc' = [pc EXCEPT ![r] = "Persisting"]
              /\ UNCHANGED outcome
         ELSE /\ pc' = [pc EXCEPT ![r] = "Aborted"]
              /\ outcome' = [outcome EXCEPT ![r] = Raise("TemplateRenderError", 400)]
    /\ UNCHANGED <<config, body, ctx, executor, convertor, execResult, response,
                   invocations, queries, taskQueue, store, fetch>>

\* Persisting: the Query record is created pending, with its resultsKey.
Persist(r) ==
    /\ pc[r] = "Persisting"
    /\ queries' = Append(queries,
           [id |-> Len(queries) + 1, owner |-> r, status |-> "pending",
            resultsKey |-> Len(queries) + 1, duration |-> 0, rowCount |-> 0, execs |-> 0])
    /\ ctx' = [ctx EXCEPT ![r].queryId = Len(queries) + 1]
    /\ pc' = [pc EXCEPT ![r] = "Executing"]
    /\ UNCHANGED <<config, body, executor, convertor, execResult, outcome, response,
                   renders, invocations, taskQueue, store, fetch>>

\* --------------------------------------------- SynchronousSqlJsonExecutor (contract)
\* execute begins: the record is running.
SyncStart(r) ==
    /\ pc[r] = "Executing"
    /\ executor[r].kind = "sync"
    /\ invocations' = [invocations EXCEPT ![r] = @ + 1]
    /\ queries' = [queries EXCEPT ![ctx[r].queryId].status = "running",
                                  ![ctx[r].queryId].execs = @ + 1]
    /\ pc' = [pc EXCEPT ![r] = "Running"]
    /\ UNCHANGED <<config, body, ctx, executor, convertor, execResult, outcome, response,
                   renders, taskQueue, store, fetch>>

\* The executor records success although the time budget was exceeded.
SyncTimeoutAsSuccess(r, d) ==
    LET q == ctx[r].queryId IN
    /\ pc[r] = "Running"
    /\ d > executor[r].timeout
    /\ queries' = [queries EXCEPT ![q].status = "success", ![q].duration = d]
    /\ execResult' = [execResult EXCEPT ![r] =
           [status |-> "success", queryId |-> q, resultsKey |-> queries[q].resultsKey,
            total |-> 0, errorKind |-> "none"]]
    /\ pc' = [pc EXCEPT ![r] = "Normalizing"]
    /\ UNCHANGED <<config, body, ctx, executor, convertor, outcome, response,
                   renders, invocations, taskQueue, store, fetch>>

\* The database needs d, more than the budget: the operation is cancelled, the record is timed_out and
\* the executor returns failed with errorKind Timeout.
SyncTimeout(r, d) ==
    LET q == ctx[r].queryId IN
    /\ pc[r] = "Running"
    /\ d > executor[r].timeout
    /\ queries' = [queries EXCEPT ![q].status = "timed_out", ![q].duration = d]
    /\ execResult' = [execResult EXCEPT ![r] =
           [status |-> "failed", queryId |-> q, resultsKey |-> queries[q].resultsKey,
            total |-> 0, errorKind |-> "Timeout"]]
    /\ pc' = [pc EXCEPT ![r] = "Normalizing"]
    /\ UNCHANGED <<config, body, ctx, executor, convertor, outcome, response,
                   renders, invocations, taskQueue, store, fetch>>

\* The query completes after d, within the budget, with n rows; with backend persistence the
\* raw result is also stored under the resultsKey.
SyncSuccess(r, n, d) ==
    LET q == ctx[r].queryId IN
    /\ pc[r] = "Running"
    /\ d <= executor[r].timeout
    /\ queries' = [queries EXCEPT ![q].status = "success", ![q].rowCount = n,
                                  ![q].duration = d]
    /\ store' = IF executor[r].persist
                THEN [store EXCEPT ![queries[q].resultsKey] = n]
                ELSE store
    /\ execResult' = [execResult EXCEPT ![r] =
           [status |-> "success", queryId |-> q, resultsKey |-> queries[q].resultsKey,
            total |-> n, errorKind |-> "none"]]
    /\ pc' = [pc EXCEPT ![r] = "Normalizing"]
    /\ UNCHANGED <<config, body, ctx, executor, convertor, outcome, response,
                   renders, invocations, taskQueue, fetch>>

\* The database fails after d, within the budget: the error is recorded on the record and
\* surfaced to the caller as the catch-all execution error.
SyncError(r, d) ==
    LET q == ctx[r].queryId IN
    /\ pc[r] = "Running"
    /\ d <= executor[r].timeout
    /\ queries' = [queries EXCEPT ![q].status = "failed", ![q].duration = d]
    /\ outcome' = [outcome EXCEPT ![r] = Raise("UnexpectedExecutionError", 500)]
    /\ pc' = [pc EXCEPT ![r] = "Aborted"]
    /\ UNCHANGED <<config, body, ctx, executor, convertor, execResult, response,
                   renders, invocations, taskQueue, store, fetch>>

\* --------------------------------------------- ASynchronousSqlJsonExecutor (contract)
\* execute: the record is running, the query is handed to the task queue, and the
\* receipt (queryIsRunning, resultsKey) is returned at once.
AsyncExecute(r) ==
    LET q == ctx[r].queryId IN
    /\ pc[r] = "Executing"
    /\ executor[r].kind = "async"
    /\ invocations' = [invocations EXCEPT ![r] = @ + 1]
    /\ queries' = [queries EXCEPT ![q].status = "running", ![q].execs = @ + 1]
    /\ taskQueue' = taskQueue \cup {q}
    /\ execResult' = [execResult EXCEPT ![r] =
           [status |-> "queryIsRunning", queryId |-> q,
            resultsKey |-> queries[q].resultsKey, total |-> 0, errorKind |-> "none"]]
    /\ pc' = [pc EXCEPT ![r] = "Normalizing"]
    /\ UNCHANGED <<config, body, ctx, executor, convertor, outcome, response,
                   renders, store, fetch>>

\* A worker that leaves the task on the queue: it is delivered again later.
WorkerRedelivered(q, ok, n) ==
    /\ q \in taskQueue
    /\ queries' = [queries EXCEPT ![q].status = IF ok THEN "success" ELSE "failed",
                                  ![q].rowCount = IF ok THEN n ELSE 0]
    /\ store' = IF ok THEN [store EXCEPT ![queries[q].resultsKey] = n] ELSE store
    /\ UNCHANGED <<config, pc, body, ctx, executor, convertor, execResult, outcome,
                   response, renders, invocations, taskQueue, fetch>>

\* The background worker takes a task: it sets the record to success and stores the
\* result set under the resultsKey, or sets it to failed.
Worker(q, ok, n) ==
    /\ q \in taskQueue
    /\ queries' = [queries EXCEPT ![q].status = IF ok THEN "success" ELSE "failed",
                                  ![q].rowCount = IF ok THEN n ELSE 0]
    /\ store' = IF ok THEN [store EXCEPT ![queries[q].resultsKey] = n] ELSE store
    /\ taskQueue' = taskQueue \ {q}
    /\ UNCHANGED <<config, pc, body, ctx, executor, convertor, execResult, outcome,
                   response, renders, invocations, fetch>>

\* --------------------------------------------- ExecutionContextConvertor (contract)
\* normalize(rawResult, maxDisplayRows): rows are cut to the cap, isLimited says so.
NormalizeUncapped(e, cap) ==
    [kind |-> "ResultSet", resultsKey |-> e.resultsKey, queryId |-> e.queryId,
     rowCountTotal |-> e.total, rowCountDisplayed |-> e.total,
     isLimited |-> e.total >= cap, errorKind |-> "none"]

NormalizeResultSet(e, cap) ==
    [kind |-> "ResultSet", resultsKey |-> e.resultsKey, queryId |-> e.queryId,
     rowCountTotal |-> e.total, rowCountDisplayed |-> Min(e.total, cap),
     isLimited |-> e.total > cap, errorKind |-> "none"]

\* The command's result: the payload by the executor's status.
CommandResultOf(e, cap) ==
    [raised |-> FALSE, status |-> e.status, exKind |-> "none", exStatus |-> 0,
     payload |->
        CASE e.status = "success" -> NormalizeResultSet(e, cap)
          [] e.status = "queryIsRunning" ->
                [NoPayload EXCEPT !.kind = "RunningReceipt", !.resultsKey = e.resultsKey,
                                  !.queryId = e.queryId]
          [] OTHER ->
                [NoPayload EXCEPT !.kind = "ErrorDetail", !.queryId = e.queryId,
                                  !.errorKind = e.errorKind]]

\* Normalizing -> Done: command.run() returns its CommandResult.
Normalize(r) ==
    /\ pc[r] = "Normalizing"
    /\ outcome' = [outcome EXCEPT ![r] = CommandResultOf(execResult[r], convertor[r])]
    /\ pc' = [pc EXCEPT ![r] = "Done"]
    /\ UNCHANGED <<config, body, ctx, executor, convertor, execResult, response,
                   renders, invocations, queries, taskQueue, store, fetch>>

\* --------------------------------------------- SqlExecutionResultsCommand (contract)
\* fetch(key, rows): rows = 0 stands for "not given". The store disabled or timing
\* out, an unknown key, and a key without data fail; a query still in flight is
\* reported running; otherwise the stored rows, at most `rows` of them.
ResultsCommandRun(key, rows, health) ==
    LET owners == {q \in DOMAIN queries : queries[q].resultsKey = key} IN
    CASE health = "disabled" -> Raise("ResultsBackendError", 500)
      [] health = "timeout"  -> Raise("ResultsBackendTimeoutError", 500)
      [] owners = {}         -> Raise("ResultsBackendError", 404)
      [] store[key] >= 0     ->
            [NoOutcome EXCEPT !.status = "success", !.payload.kind = "ResultSet",
                              !.payload.resultsKey = key,
                              !.payload.rowCountTotal = store[key],
                              !.payload.rowCountDisplayed =
                                  IF rows > 0 THEN Min(rows, store[key]) ELSE store[key]]
      [] \E q \in owners : queries[q].status \in {"pending", "running"} ->
            [NoOutcome EXCEPT !.status = "queryIsRunning",
                              !.payload.kind = "RunningReceipt",
                              !.payload.resultsKey = key]
      [] OTHER               -> Raise("ResultsBackendError", 410)

\* --------------------------------------------- api.py: get_results
\* The handler answers 200 with an empty result whatever the command did.
GetResultsResponseSwallowing(key, rows, health, result) ==
    [called |-> TRUE, key |-> key, health |-> health, raised |-> FALSE,
     status |-> 200, errorKind |-> "none",
     resultStatus |-> IF result.raised THEN "success" ELSE result.status,
     rowCount |-> result.payload.rowCountDisplayed]

\* result = SqlExecutionResultsCommand(key=key, rows=rows).run(); json_success(..., 200).
\* get_results has no except clause: what run() raises leaves the handler and is
\* answered by the application's error handler with the exception's status.
GetResultsResponse(key, rows, health, result) ==
    IF result.raised
    THEN [called |-> TRUE, key |-> key, health |-> health, raised |-> TRUE,
          status |-> result.exStatus, errorKind |-> result.exKind,
          resultStatus |-> "none", rowCount |-> 0]
    ELSE [called |-> TRUE, key |-> key, health |-> health, raised |-> FALSE,
          status |-> 200, errorKind |-> "none", resultStatus |-> result.status,
          rowCount |-> result.payload.rowCountDisplayed]

\* A GET /results/ with params key and rows; health is the state of the results backend
\* during the call. The endpoint's answer is held in fetch until it is returned.
GetResults(key, rows, health) ==
    /\ ~fetch.called
    /\ fetch' = GetResultsResponse(key, rows, health, ResultsCommandRun(key, rows, health))
    /\ UNCHANGED <<config, pc, body, ctx, executor, convertor, execResult, outcome,
                   response, renders, invocations, queries, taskQueue, store>>

\* The answer of get_results goes back to the client.
ReturnResults ==
    /\ fetch.called
    /\ fetch' = NoFetch
    /\ UNCHANGED <<config, pc, body, ctx, executor, convertor, execResult, outcome,
                   response, renders, invocations, queries, taskQueue, store>>

\* --------------------------------------------- the system
Init ==
    /\ config \in [timeout : 1..MaxConfig, displayMaxRow : 1..MaxConfig, persist : BOOLEAN]
    /\ pc = [r \in Reqs |-> "idle"]
    /\ body = [r \in Reqs |-> NoBody]
    /\ ctx = [r \in Reqs |-> NoCtx]
    /\ executor = [r \in Reqs |-> NoExecutor]
    /\ convertor = [r \in Reqs |-> 0]
    /\ execResult = [r \in Reqs |-> NoExecResult]
    /\ outcome = [r \in Reqs |-> NoOutcome]
    /\ response = [r \in Reqs |-> NoResponse]
    /\ renders = [r \in Reqs |-> 0]
    /\ invocations = [r \in Reqs |-> 0]
    /\ queries = << >>
    /\ taskQueue = {}
    /\ store = [k \in Keys |-> -1]
    /\ fetch = NoFetch

Next ==
    \/ \E r \in Reqs, b \in [valid : BOOLEAN, runAsync : BOOLEAN] : Submit(r, b)
    \/ \E r \in Reqs : LoadSchema(r)
    \/ \E r \in Reqs : CreateContext(r)
    \/ \E r \in Reqs : CreateSqlJsonCommand(r)
    \/ \E r \in Reqs : ValidateAccess(r)
    \/ \E r \in Reqs : Render(r)
    \/ \E r \in Reqs : Persist(r)
    \/ \E r \in Reqs : SyncStart(r)
    \/ \E r \in Reqs, d \in 1..MaxDuration : SyncTimeout(r, d)
    \/ \E r \in Reqs, d \in 1..MaxDuration, n \in 0..MaxRows : SyncSuccess(r, n, d)
    \/ \E r \in Reqs, d \in 1..MaxDuration : SyncError(r, d)
    \/ \E r \in Reqs : AsyncExecute(r)
    \/ \E q \in taskQueue, ok \in BOOLEAN, n \in 0..MaxRows : Worker(q, ok, n)
    \/ \E r \in Reqs : Normalize(r)
    \/ \E r \in Reqs : Respond(r)

\* The dispatch together with the results endpoint.
NextResults ==
    \/ Next
    \/ \E key \in Keys, rows \in 0..1, health \in {"ok", "disabled", "timeout"} :
          GetResults(key, rows, health)
    \/ ReturnResults

Spec == Init /\ [][Next]_vars

SpecResults == Init /\ [][NextResults]_vars

\* ================================================================ claims
Forbidden(r)   == outcome[r].raised /\ outcome[r].exKind = "QueryIsForbiddenToAccessException"
RenderFailed(r) == outcome[r].raised /\ outcome[r].exKind = "TemplateRenderError"
Responded(r)   == pc[r] = "responded"
Dispatched(r)  == Responded(r) /\ body[r].valid

\* C1: for every request that passes schema validation the HTTP status follows the
\* dispatch outcome: a result with status queryIsRunning gives 202, any other
\* returned result 200, QueryIsForbiddenToAccessException 403, any other
\* SqlLabException its own declared status with the body {"errors": [detail]}.
C1_StatusByOutcome ==
    \A r \in Reqs : Dispatched(r) =>
        LET o == outcome[r] IN
        /\ (~o.raised /\ o.status = "queryIsRunning") => response[r].status = 202
        /\ (~o.raised /\ o.status # "queryIsRunning") => response[r].status = 200
        /\ ~o.raised => response[r].kind = "payload" /\ response[r].payload = o.payload
        /\ Forbidden(r) => response[r].status = 403
        /\ (o.raised /\ ~Forbidden(r)) => response[r].status = o.exStatus
        /\ o.raised => response[r].kind = "errors" /\ response[r].errorKind = o.exKind

\* One request answered 202 and another answered with a render error's own 400.
C1_Witness ==
    \E r1, r2 \in Reqs :
        /\ Dispatched(r1) /\ response[r1].status = 202
        /\ Dispatched(r2) /\ RenderFailed(r2) /\ response[r2].status = 400

\* C2: a dispatch whose context fails the Access Validator creates no Query record,
\* renders no SQL and invokes no executor, in any state up to and after the refusal,
\* and it ends aborted, answered 403.
C2_ForbiddenNoSideEffect ==
    \A r \in Reqs :
        /\ (pc[r] \in {"idle", "received", "loaded", "context", "Validating"} \/ Forbidden(r))
              => QueriesOf(r) = {} /\ renders[r] = 0 /\ invocations[r] = 0
        /\ Forbidden(r) => pc[r] \in {"Aborted", "responded"}
        /\ (Forbidden(r) /\ Responded(r)) => response[r].status = 403

\* A forbidden request has been answered while the other request's Query record exists.
C2_Witness ==
    \E r1, r2 \in Reqs :
        /\ Forbidden(r1) /\ Responded(r1)
        /\ QueriesOf(r2) # {}

C5_AtMostOnce ==
    /\ \A r \in Reqs :
          /\ Cardinality(QueriesOf(r)) <= 1
          /\ invocations[r] <= 1
          /\ renders[r] <= 1
          /\ (Dispatched(r) /\ ~Forbidden(r) /\ ~RenderFailed(r)) =>
                Cardinality(QueriesOf(r)) = 1 /\ invocations[r] = 1
    /\ \A q \in DOMAIN queries : queries[q].execs <= 1

\* Both requests answered, each with its own record, one of them timed out.
C5_Witness ==
    /\ \A r \in Reqs : Dispatched(r) /\ Cardinality(QueriesOf(r)) = 1
    /\ \E q \in DOMAIN queries : queries[q].status = "timed_out"

\* C6: a synchronous execution that needs longer than the configured timeout leaves
\* its record timed_out, never success, and the result is failed with errorKind Timeout.
C6_Timeout ==
    \A q \in DOMAIN queries : queries[q].duration > config.timeout =>
        LET r == queries[q].owner IN
        /\ queries[q].status = "timed_out"
        /\ execResult[r].status = "failed" /\ execResult[r].errorKind = "Timeout"
        /\ pc[r] \in {"Normalizing", "Done", "responded"}
        /\ pc[r] \in {"Done", "responded"} =>
              /\ outcome[r].status = "failed"
              /\ outcome[r].payload.kind = "ErrorDetail"
              /\ outcome[r].payload.errorKind = "Timeout"

\* A timed-out query whose request has been answered with the Timeout payload.
C6_Witness ==
    \E q \in DOMAIN queries :
        /\ queries[q].duration > config.timeout
        /\ queries[q].status = "timed_out"
        /\ Responded(queries[q].owner)
        /\ response[queries[q].owner].payload.errorKind = "Timeout"

\* C7: a returned ResultSet shows at most DISPLAY_MAX_ROW rows and is marked limited
\* exactly when the query produced more rows than that.
C7_DisplayCap ==
    \A r \in Reqs :
        LET p == outcome[r].payload IN
        (~outcome[r].raised /\ outcome[r].status = "success") =>
            /\ p.kind = "ResultSet"
            /\ p.rowCountDisplayed <= config.displayMaxRow
            /\ p.rowCountDisplayed <= p.rowCountTotal
            /\ p.isLimited <=> (p.rowCountTotal > config.displayMaxRow)
            /\ p.rowCountTotal = queries[ctx[r].queryId].rowCount
            /\ Responded(r) => response[r].payload = p

\* One answer cut to the cap and marked limited, another complete and not limited.
C7_Witness ==
    \E r1, r2 \in Reqs :
        /\ Responded(r1) /\ response[r1].status = 200 /\ response[r1].payload.isLimited
        /\ response[r1].payload.rowCountDisplayed = config.displayMaxRow
        /\ Responded(r2) /\ response[r2].status = 200
        /\ response[r2].payload.kind = "ResultSet" /\ ~response[r2].payload.isLimited

C9_StateOk ==
    \A r \in Reqs :
        /\ pc[r] \in {"idle", "received", "loaded", "context"} => executor[r] = NoExecutor
        /\ (pc[r] \notin {"idle", "received", "loaded", "context"} /\ body[r].valid) =>
              /\ executor[r].kind \in {"sync", "async"}
              /\ executor[r].kind = "async" <=> ctx[r].runAsynchronous
              /\ ctx[r].runAsynchronous = body[r].runAsync
              /\ executor[r].kind = "sync" =>
                    /\ executor[r].timeout = config.timeout
                    /\ executor[r].persist = config.persist
        /\ invocations[r] > 0 => executor[r].kind # "none"

C9_ExecutorSelection ==
    /\ []C9_StateOk
    /\ [][\A r \in Reqs : executor[r] # NoExecutor => executor'[r] = executor[r]]_vars

\* Both requests answered, one run by each executor variant.
C9_Witness ==
    \E r1, r2 \in Reqs :
        /\ Responded(r1) /\ executor[r1].kind = "async" /\ invocations[r1] = 1
        /\ Responded(r2) /\ executor[r2].kind = "sync" /\ invocations[r2] = 1

\* C10: a body failing schema validation is answered 400 in the very step that loads
\* it: no context, command or executor is built or run, no Query record is created and
\* the results backend and the task queue are as they were.
C10_StateOk ==
    \A r \in Reqs : (pc[r] \notin {"idle", "received"} /\ ~body[r].valid) =>
        /\ Responded(r)
        /\ response[r].status = 400
        /\ ctx[r] = NoCtx /\ executor[r] = NoExecutor /\ convertor[r] = 0
        /\ execResult[r] = NoExecResult /\ outcome[r] = NoOutcome
        /\ QueriesOf(r) = {} /\ renders[r] = 0 /\ invocations[r] = 0

C10_InvalidBody400 ==
    /\ []C10_StateOk
    /\ [][\A r \in Reqs :
             (pc[r] = "received" /\ ~body[r].valid /\ pc'[r] # pc[r]) =>
                 /\ pc'[r] = "responded"
                 /\ UNCHANGED <<queries, store, taskQueue, ctx, executor, renders,
                                invocations>>]_vars

\* An invalid request answered 400 while the other request's result is stored.
C10_Witness ==
    \E r1, r2 \in Reqs :
        /\ Responded(r1) /\ ~body[r1].valid /\ response[r1].status = 400
        /\ QueriesOf(r2) # {}
        /\ \E q \in QueriesOf(r2) : store[queries[q].resultsKey] >= 0

====
